---- MODULE Spec2Model ----
(***************************************************************************)
(* Model of src/app.py: the RAG document store, the chat orchestrator in   *)
(* its single-shot (chat) and streaming (chat_stream) modes, and the       *)
(* streaming relay (chat_stream.generate).                                 *)
(*                                                                         *)
(* Text is a sequence of one-character strings, so that strip, count,      *)
(* slicing and the tokenizer's regular expression are computed.            *)
(***************************************************************************)
EXTENDS Integers, Sequences, FiniteSets, TLC

(***************************************************************************)
(* Configuration.  app.py reads these from the environment (lines 24-28);  *)
(* the model runs the program under a scaled-down configuration so that a  *)
(* "long" message and a multi-chunk document stay a few dozen characters.  *)
(***************************************************************************)
RAG_CHUNK_SIZE == 12

RAG_CHUNK_OVERLAP == 2

RAG_AUTO_INGEST_MIN_CHARS == 24

\* should_auto_ingest: line_count >= 12 (hard-coded)
AUTO_INGEST_MIN_LINES == 12

\* should_auto_ingest: question_marks >= 2 (hard-coded)
QUESTION_MARKS_MIN == 2

(***************************************************************************)
(* Bounds of the model.                                                    *)
(***************************************************************************)
\* chat requests handled one after another in one behaviour of Spec
MaxRequests == 2

\* lines of a downstream stream in Spec (the orchestrator with its relay)
OrchLines == 1

\* lines of a downstream stream in RelaySpec (the relay alone)
MaxLines == 3

\* store operations the concurrent clients start, in all, in StoreSpec
MaxOps == 3

\* FunSpec: longest text handed to chunk_text, largest chunk_size and overlap
MaxText == 4

MaxChunkSize == 3

MaxOverlap == 3

\* FunSpec: most whitespace put before and after a message for should_auto_ingest
MaxPad == 1

\* FunSpec: most documents in the store retrieve_context reads, and largest top_k
MaxDocs == 3

MaxTopK == 3

\* FunSpec: longest history handed to build_messages, largest CHAT_HISTORY_MESSAGES
MaxHistory == 3

MaxHistoryBound == 3

(***************************************************************************)
(* Text helpers: Python's str operations on sequences of characters.       *)
(***************************************************************************)
Max(a, b) == IF a >= b THEN a ELSE b

Min(a, b) == IF a <= b THEN a ELSE b

Rep(c, n) == [i \in 1..n |-> c]

\* the characters str.strip() removes
Whitespace == {" ", "\n", "\t", "\r"}

LowerLetters ==
    {"a","b","c","d","e","f","g","h","i","j","k","l","m",
     "n","o","p","q","r","s","t","u","v","w","x","y","z"}

UpperLetters ==
    {"A","B","C","D","E","F","G","H","I","J","K","L","M",
     "N","O","P","Q","R","S","T","U","V","W","X","Y","Z"}

Digits == {"0","1","2","3","4","5","6","7","8","9"}

\* str.lower() on one character (the upper-case letters the model's texts use)
LowerChar(c) ==
    CASE c = "A" -> "a" [] c = "B" -> "b" [] c = "C" -> "c" [] c = "D" -> "d"
      [] c = "E" -> "e" [] c = "F" -> "f" [] c = "G" -> "g" [] c = "H" -> "h"
      [] c = "I" -> "i" [] c = "J" -> "j" [] c = "K" -> "k" [] c = "L" -> "l"
      [] c = "M" -> "m" [] c = "N" -> "n" [] c = "O" -> "o" [] c = "P" -> "p"
      [] c = "Q" -> "q" [] c = "R" -> "r" [] c = "S" -> "s" [] c = "T" -> "t"
      [] c = "U" -> "u" [] c = "V" -> "v" [] c = "W" -> "w" [] c = "X" -> "x"
      [] c = "Y" -> "y" [] c = "Z" -> "z" [] OTHER -> c

Lower(text) == [i \in 1..Len(text) |-> LowerChar(text[i])]

\* text[a:b] of Python, 0-based, b clipped to the length
Slice(text, a, b) == SubSeq(text, a + 1, Min(b, Len(text)))

\* str.strip()
Strip(text) ==
    LET keep == {i \in 1..Len(text) : text[i] \notin Whitespace}
    IN  IF keep = {} THEN <<>>
        ELSE LET lo == CHOOSE i \in keep : \A j \in keep : i <= j
                 hi == CHOOSE i \in keep : \A j \in keep : i >= j
             IN  SubSeq(text, lo, hi)

\* str.count(c) for a one-character c
Count(text, c) == Cardinality({i \in 1..Len(text) : text[i] = c})

\* the character class [a-zA-Z0-9_]
WordChars == LowerLetters \cup UpperLetters \cup Digits \cup {"_"}

\* tokenize: set(re.findall(r"[a-zA-Z0-9_]{3,}", text.lower())): the maximal
\* runs of word characters that are at least 3 long
tokenize(text) ==
    LET t == Lower(text)
        n == Len(t)
        IsRun(i, j) ==
            /\ \A k \in i..j : t[k] \in WordChars
            /\ (i = 1 \/ t[i - 1] \notin WordChars)
            /\ (j = n \/ t[j + 1] \notin WordChars)
    IN  {SubSeq(t, i, j) : <<i, j>> \in
            {p \in (1..n) \X (1..n) : p[2] - p[1] + 1 >= 3 /\ IsRun(p[1], p[2])}}

\* chunk_text: the windows text[start : start + chunk_size] for start = 0, step,
\* 2*step, ..., trimmed, the empty ones dropped, stopping after the first window
\* whose end reaches the end of the text
\* (ChunkFrom_no_break: the loop of line 62 without the break of lines 66-67.)
RECURSIVE ChunkFrom_no_break(_, _, _, _)
ChunkFrom_no_break(text, start, chunk_size, step) ==
    IF start >= Len(text) THEN <<>>
    ELSE LET part == Strip(Slice(text, start, start + chunk_size))
             here == IF part # <<>> THEN <<part>> ELSE <<>>
         IN  here \o ChunkFrom_no_break(text, start + step, chunk_size, step)

RECURSIVE ChunkFrom(_, _, _, _)
ChunkFrom(text, start, chunk_size, step) ==
    IF start >= Len(text) THEN <<>>
    ELSE LET part == Strip(Slice(text, start, start + chunk_size))
             here == IF part # <<>> THEN <<part>> ELSE <<>>
         IN  IF start + chunk_size >= Len(text) THEN here
             ELSE here \o ChunkFrom(text, start + step, chunk_size, step)

chunk_text_with(text, chunk_size, overlap) ==
    IF text = <<>> THEN <<>>
    ELSE ChunkFrom(text, 0, chunk_size, Max(1, chunk_size - overlap))

\* chunk_text with its default arguments, as every caller in app.py calls it
chunk_text(text) == chunk_text_with(text, RAG_CHUNK_SIZE, RAG_CHUNK_OVERLAP)

\* should_auto_ingest for a str message (a non-str message gives False).
\* (should_auto_ingest_untrimmed: the same tests on the message as received.)
should_auto_ingest_untrimmed(message) ==
    LET line_count == Count(message, "\n") + 1
        question_marks == Count(message, "?")
        looks_long == Len(message) >= RAG_AUTO_INGEST_MIN_CHARS
                      \/ line_count >= AUTO_INGEST_MIN_LINES
        looks_like_question == question_marks >= QUESTION_MARKS_MIN
    IN  /\ message # <<>>
        /\ looks_long
        /\ ~looks_like_question

should_auto_ingest(message) ==
    LET text == Strip(message)
        line_count == Count(text, "\n") + 1
        question_marks == Count(text, "?")
        looks_long == Len(text) >= RAG_AUTO_INGEST_MIN_CHARS
                      \/ line_count >= AUTO_INGEST_MIN_LINES
        looks_like_question == question_marks >= QUESTION_MARKS_MIN
    IN  /\ text # <<>>
        /\ looks_long
        /\ ~looks_like_question

(***************************************************************************)
(* The Document Store: the table rag_chunks as the sequence of its         *)
(* committed rows, in insertion order.                                     *)
(***************************************************************************)
\* f"chat-paste-{n}.txt"; an uploaded file's name is a one-element tuple
PasteName(n) == <<"chat-paste-", n, ".txt">>

\* one row of rag_chunks, as add_document_chunks builds it (lines 122-128), and the
\* rows of one call: ids firstId, firstId + 1, ... stand for
\* the fresh uuid4 values, chunk_index is the position enumerate() gives
ChunkRow(id, filename, index, part) ==
    [id |-> id, filename |-> filename, chunk_index |-> index, content |-> part,
     tokens |-> tokenize(part)]

NewRows(filename, content, firstId) ==
    LET chunks == chunk_text(content)
    IN  [i \in 1..Len(chunks) |-> ChunkRow(firstId + i - 1, filename, i - 1, chunks[i])]

\* rag_counts: (document_count, chunk_count)
rag_counts(rows) ==
    <<Cardinality({rows[i].filename : i \in 1..Len(rows)}), Len(rows)>>

\* rag_filenames: the distinct filenames (as a set: the ORDER BY is left out)
rag_filenames(rows) == {rows[i].filename : i \in 1..Len(rows)}

\* ingest_pasted_document: the filename it writes under
PasteFilename(rows) == PasteName(rag_counts(rows)[1] + 1)

(***************************************************************************)
(* State.                                                                  *)
(***************************************************************************)
VARIABLES
    store,        \* committed rows of rag_chunks
    nextId,       \* supply of fresh row ids (uuid4)
    configured,   \* web_lookup_configured(): GOOGLE_API_KEY and GOOGLE_CSE_ID set
    lineLimit,    \* longest downstream stream of this behaviour
    requests,     \* chat requests received so far
    pc,           \* position of the request being handled
    req,          \* the request: mode, has_message, message, rag_enabled, web_enabled
    web_results,  \* chat / chat_stream local
    prompt,       \* what build_messages assembled: web block, RAG block
    ingest,       \* chat / chat_stream locals filename, chunks_added
    response,     \* the HTTP response returned to the caller, NoResponse before
    events,       \* streaming: the NDJSON events yielded so far
    idx,          \* streaming: lines of the downstream body consumed
    connHeld,     \* streaming: the downstream connection is checked out
    provider,     \* environment: what the search provider answered, NoProvider before
    storage,      \* environment: how the store calls of this request went
    downstream,   \* environment: what the downstream model service answers
    disconnected, \* environment: the caller went away (generator closed)
    store0,       \* history: the store when the request arrived
    webCalls,     \* history: requests sent to the search provider by this request
    modelCalls,   \* history: requests sent to the downstream model by this request
    storeWrites,  \* history: add_document_chunks calls of this request
    ppc,          \* store clients: what each one is doing
    job,          \* store clients: the add_document_chunks call in progress
    txn,          \* store clients: rows inserted in the open transaction
    writer,       \* the client holding the database write lock, NoWriter if none
    observed,     \* store clients: the rows the last SELECT returned
    ops,          \* store clients: operations started, in all
    calls,        \* history: per add_document_chunks call, its chunk count and row ids
    call,         \* a direct call of one function: its name and arguments
    result        \* what the call returned, NoResult before

dbVars == <<store, nextId>>

cfgVars == <<configured, lineLimit>>

\* the locals of the request handler
reqVars == <<requests, req, web_results, prompt, ingest>>

envVars == <<provider, storage, downstream, disconnected>>

histVars == <<store0, webCalls, modelCalls, storeWrites>>

\* a function called on its own (FunSpec)
callVars == <<call, result>>

\* the concurrent clients of the store (StoreSpec)
clientVars == <<ppc, job, txn, writer, observed, ops, calls>>

vars == <<dbVars, cfgVars, callVars, reqVars, envVars, histVars, clientVars, pc, response, events,
          idx, connHeld>>

NoResponse == [status |-> 0]

NoRequest == [mode |-> "none"]

NoDownstream == [kind |-> "none"]

NoProvider == [kind |-> "none"]

NoPrompt == [built |-> FALSE]

NoIngest == [done |-> FALSE]

NoCall == [fn |-> "none"]

NoResult == [returned |-> FALSE]

\* resolve_model(None)
OLLAMA_MODEL == "llama3.2:1b"

(***************************************************************************)
(* Inputs.                                                                 *)
(***************************************************************************)
ShortQuestion == <<"h", "i", "?">>

\* one line of RAG_AUTO_INGEST_MIN_CHARS characters, no question mark
LongPaste == <<"f","o","o"," ","b","a","r"," ">> \o Rep("z", 16)

\* 12 short lines, fewer characters than RAG_AUTO_INGEST_MIN_CHARS, one question mark
LinesPaste == <<"o","n","e","?">> \o Rep("\n", 11)  \o <<"e","n","d">>

\* long, but two question marks
LongQuestion == Rep("w", 22) \o <<"?", "?">>

Messages == {ShortQuestion, LongPaste, LinesPaste, LongQuestion}

Modes == {"single", "stream"}

\* what the search provider can answer once it is called: a success with items, a
\* non-success status, a transport failure (requests.RequestException), or a success
\* whose body is not the expected JSON object (raises outside RequestException)
WebItems ==
    {<<>>,
     <<[title |-> "t", snippet |-> "s", link |-> "l"]>>,
     <<[title |-> "", snippet |-> "", link |-> ""],
       [title |-> "t", snippet |-> "", link |-> ""]>>}

WebOutcomes ==
    {[kind |-> "ok", items |-> it] : it \in WebItems}
    \cup {[kind |-> "not_ok"], [kind |-> "transport"], [kind |-> "bad_body"]}

\* the assistant text of a non-streaming downstream answer
AssistantTexts == {<<>>, <<" ", "\n">>, <<"o", "k">>, <<" ", "o", "k", "\n">>}

\* text that comes from outside the program: the body of a downstream error
\* response (response.text), the message of a transport exception (str(exc)); the
\* message of a timeout is the library's own
DownstreamTexts == {"model runner crashed", "connection reset by peer"}

\* what the downstream model service can answer to the single-shot request:
\* a timeout before the status line (requests raises a Timeout), another transport
\* failure, a timeout while the body is read ("body_timeout": requests raises
\* ConnectionError for it, which is no Timeout), or a status with a body; the body
\* of a 200 is not JSON, a JSON value that is no object, an object whose message is
\* no object, or {message: {content: text}}
SingleDownstream ==
    {[kind |-> "timeout"], [kind |-> "body_timeout"]}
    \cup {[kind |-> "error", text |-> t] : t \in DownstreamTexts}
    \cup {[kind |-> "http", status |-> 500, body |-> t] : t \in DownstreamTexts}
    \cup {[kind |-> "http", status |-> 200, body |-> b] :
            b \in {"notjson", "nonobject", "badmsg"}}
    \cup {[kind |-> "http", status |-> 200, body |-> "message", content |-> t] :
            t \in AssistantTexts}

\* one line of a streaming downstream body, as iter_lines yields it
StreamLines ==
    {[kind |-> "empty"], [kind |-> "garbage"], [kind |-> "nonobject"],
     [kind |-> "badmsg"]}
    \cup {[kind |-> "record", content |-> c, done |-> d] :
            c \in {"", "x", "y"}, d \in BOOLEAN}

RECURSIVE SeqsUpTo(_, _)
SeqsUpTo(S, n) ==
    IF n = 0 THEN {<<>>}
    ELSE LET shorter == SeqsUpTo(S, n - 1)
         IN  shorter \cup {Append(q, x) : q \in {r \in shorter : Len(r) = n - 1}, x \in S}

\* what the downstream model service can answer to the streaming request: the
\* request times out or fails in transport, or a status comes back; the body of a
\* 200 is some lines, after which it ends ("eof") or the read times out or fails
StreamDownstream(limit) ==
    {[kind |-> "timeout"]}
    \cup {[kind |-> "error", text |-> t] : t \in DownstreamTexts}
    \cup {[kind |-> "http", status |-> 500, lines |-> <<>>, ending |-> "eof", text |-> t] :
            t \in DownstreamTexts}
    \cup {[kind |-> "http", status |-> 200, lines |-> ls, ending |-> e, text |-> ""] :
            ls \in SeqsUpTo(StreamLines, limit), e \in {"eof", "timeout"}}
    \cup {[kind |-> "http", status |-> 200, lines |-> ls, ending |-> "error", text |-> t] :
            ls \in SeqsUpTo(StreamLines, limit), t \in DownstreamTexts}

(***************************************************************************)
(* Responses and events.                                                   *)
(***************************************************************************)
\* chat line 407 / chat_stream line 515
NoMessageResponse(mode) ==
    IF mode = "single"
    THEN [status |-> 400, error |-> "No message provided"]
    ELSE [status |-> 400, error |-> "No message provided", success |-> FALSE]

\* lines 419-427 and 527-535
NotConfiguredResponse ==
    [status |-> 400, success |-> FALSE,
     error |-> "Web Mode is enabled but Google lookup is not configured. Set GOOGLE_API_KEY and GOOGLE_CSE_ID."]

\* lines 489-499
TimeoutResponse ==
    [status |-> 504, success |-> FALSE,
     error |-> "Request timed out. The model might be loading. Please try again."]

\* lines 500-507 (chat) and 633-635 (chat_stream)
FailureResponse(mode) ==
    IF mode = "single"
    THEN [status |-> 500, success |-> FALSE,
          error |-> "An error occurred processing your request"]
    ELSE [status |-> 500, success |-> FALSE, error |-> "Failed to start stream"]

\* the acknowledgment text of lines 434-437 and 541-544
AckText(filename, chunks_added) ==
    [saved_as |-> filename, chunks |-> chunks_added]

\* lines 431-444
IngestAckResponse(r, filename, chunks_added, total) ==
    [status |-> 200, success |-> TRUE,
     message |-> AckText(filename, chunks_added),
     model |-> OLLAMA_MODEL, rag_enabled |-> TRUE, rag_ingested |-> TRUE,
     rag_total_chunks |-> total, web_enabled |-> r.web_enabled]

\* lines 478-487
SuccessResponse(r, assistant_message) ==
    [status |-> 200, success |-> TRUE, message |-> Strip(assistant_message),
     model |-> OLLAMA_MODEL, rag_enabled |-> r.rag_enabled, rag_ingested |-> FALSE,
     web_enabled |-> r.web_enabled]

\* Response(generate(), mimetype="application/x-ndjson")
StreamResponse == [status |-> 200, stream |-> TRUE]

TokenEvent(content) == [type |-> "token", content |-> content]

\* lines 609-620 (rag_ingested False) and 546-557 (rag_ingested True).
\* (DoneEvent_relay_only: the relay's done event used for the acknowledgment too.)
DoneEvent_relay_only(r, ingested) ==
    [type |-> "done", model |-> OLLAMA_MODEL, rag_enabled |-> r.rag_enabled,
     rag_ingested |-> FALSE, web_enabled |-> r.web_enabled]

DoneEvent(r, ingested) ==
    [type |-> "done", model |-> OLLAMA_MODEL,
     rag_enabled |-> IF ingested THEN TRUE ELSE r.rag_enabled,
     rag_ingested |-> ingested, web_enabled |-> r.web_enabled]

\* lines 588-593
ApiErrorEvent(text) == [type |-> "error", error |-> "Ollama API error", details |-> text]

\* line 623
TimeoutEvent == [type |-> "error", error |-> "Request timed out"]

\* lines 625-630
StreamFailedEvent(text) == [type |-> "error", error |-> "Streaming failed", details |-> text]

(***************************************************************************)
(* Helpers of the orchestrator.                                            *)
(***************************************************************************)
\* fetch_google_results, given what the provider would answer: the results, the
\* error kind ("" for None), whether the provider was called, whether it raised.
\* (fetch_google_results_unguarded: without the web_lookup_configured() check.)
fetch_google_results_unguarded(conf, out) ==
    CASE out.kind \in {"not_ok", "transport"} ->
            [results |-> <<>>, error |-> "lookup_failed", called |-> TRUE, raised |-> FALSE]
      [] out.kind = "bad_body" ->
            [results |-> <<>>, error |-> "", called |-> TRUE, raised |-> TRUE]
      [] OTHER ->
            LET Kept(item) == item.title # "" \/ item.snippet # "" \/ item.link # ""
            IN  [results |-> SelectSeq(out.items, Kept), error |-> "",
                 called |-> TRUE, raised |-> FALSE]

\* (fetch_google_results_uncaught: without the except clause of lines 229-231.)
fetch_google_results_uncaught(conf, out) ==
    IF ~conf
    THEN [results |-> <<>>, error |-> "not_configured", called |-> FALSE, raised |-> FALSE]
    ELSE CASE out.kind = "not_ok" ->
                [results |-> <<>>, error |-> "lookup_failed", called |-> TRUE, raised |-> FALSE]
           [] out.kind \in {"transport", "bad_body"} ->
                [results |-> <<>>, error |-> "", called |-> TRUE, raised |-> TRUE]
           [] OTHER ->
                LET Kept(item) == item.title # "" \/ item.snippet # "" \/ item.link # ""
                IN  [results |-> SelectSeq(out.items, Kept), error |-> "",
                     called |-> TRUE, raised |-> FALSE]

fetch_google_results(conf, out) ==
    IF ~conf
    THEN [results |-> <<>>, error |-> "not_configured", called |-> FALSE, raised |-> FALSE]
    ELSE CASE out.kind \in {"not_ok", "transport"} ->
                [results |-> <<>>, error |-> "lookup_failed", called |-> TRUE, raised |-> FALSE]
           [] out.kind = "bad_body" ->
                [results |-> <<>>, error |-> "", called |-> TRUE, raised |-> TRUE]
           [] OTHER ->
                LET Kept(item) == item.title # "" \/ item.snippet # "" \/ item.link # ""
                IN  [results |-> SelectSeq(out.items, Kept), error |-> "",
                     called |-> TRUE, raised |-> FALSE]

RAG_TOP_K == 3

\* retrieve_context: the rows sharing a token with the query, by overlap
\* descending (list.sort is stable: equal overlaps keep storage order), cut to top_k.
\* (retrieve_context_unsorted: the matching rows in storage order, line 163 left out.)
retrieve_context_unsorted(query, rows, top_k) ==
    LET query_tokens == tokenize(query)
        Overlap(i) == Cardinality(query_tokens \cap rows[i].tokens)
        hits == {i \in 1..Len(rows) : Overlap(i) > 0}
        Rank(i) == 1 + Cardinality({j \in hits : j < i})
        At(k) == CHOOSE i \in hits : Rank(i) = k
    IN  IF query_tokens = {} \/ rows = <<>> THEN <<>>
        ELSE [k \in 1..Min(top_k, Cardinality(hits)) |->
                [filename |-> rows[At(k)].filename,
                 index |-> rows[At(k)].chunk_index,
                 content |-> rows[At(k)].content]]

retrieve_context(query, rows, top_k) ==
    LET query_tokens == tokenize(query)
        Overlap(i) == Cardinality(query_tokens \cap rows[i].tokens)
        hits == {i \in 1..Len(rows) : Overlap(i) > 0}
        Before(j, i) == Overlap(j) > Overlap(i) \/ (Overlap(j) = Overlap(i) /\ j < i)
        Rank(i) == 1 + Cardinality({j \in hits : Before(j, i)})
        At(k) == CHOOSE i \in hits : Rank(i) = k
    IN  IF query_tokens = {} \/ rows = <<>> THEN <<>>
        ELSE [k \in 1..Min(top_k, Cardinality(hits)) |->
                [filename |-> rows[At(k)].filename,
                 index |-> rows[At(k)].chunk_index,
                 content |-> rows[At(k)].content]]

\* build_system_prompt, as the blocks it appends to SYSTEM_PROMPT
build_system_prompt(rag_enabled, user_message, web_enabled, results, rows) ==
    [built |-> TRUE,
     web_block |-> IF web_enabled /\ results # <<>> THEN results ELSE <<>>,
     rag_block |-> IF ~rag_enabled THEN "off"
                   ELSE LET matches == retrieve_context(user_message, rows, RAG_TOP_K)
                        IN  IF matches = <<>> THEN "no_match" ELSE matches]

\* build_messages, with the configured CHAT_HISTORY_MESSAGES as history_bound (0 or
\* more).  conversation_history[-n:] is the last n turns for n >= 1 and, -0 being 0,
\* the whole history for n = 0
bounded_history(conversation_history, history_bound) ==
    IF history_bound = 0 THEN conversation_history
    ELSE SubSeq(conversation_history,
                Max(1, Len(conversation_history) - history_bound + 1),
                Len(conversation_history))

build_messages(user_message, conversation_history, rag_enabled, web_enabled, results, rows, history_bound) ==
    LET Kept(msg) == msg.role \in {"user", "assistant"} /\ msg.content # ""
        kept == SelectSeq(bounded_history(conversation_history, history_bound), Kept)
    IN  <<[role |-> "system",
           content |-> build_system_prompt(rag_enabled, user_message, web_enabled,
                                            results, rows)]>>
        \o [i \in 1..Len(kept) |-> [role |-> kept[i].role, content |-> kept[i].content]]
        \o <<[role |-> "user", content |-> user_message]>>

(***************************************************************************)
(* The chat request, step by step.  pc is the place in chat / chat_stream: *)
(*   idle       no request yet                                             *)
(*   web        line 415 / 523: before the web lookup                      *)
(*   ingest     line 429 / 537: before the auto-ingest check               *)
(*   build      line 446 / 561: before build_messages                      *)
(*   post       line 454: before the single-shot downstream call           *)
(*   ack_start, ack_token, ack_done: generate_ingest_ack not started,      *)
(*              suspended at its first yield, at its second yield          *)
(*   gen_start  generate() not started                                     *)
(*   gen_lines  generate() in the for loop, about to read the next line    *)
(*   gen_token  generate() suspended at the token yield (line 606)         *)
(*   gen_final  generate() suspended at its last yield: the done event     *)
(*              (line 609) or an error event (lines 593, 623, 625)         *)
(*   responded  the response is complete                                   *)
(***************************************************************************)
Respond(r) ==
    /\ response' = r
    /\ pc' = "responded"

ReceiveRequest ==
    /\ pc \in {"idle", "responded"}
    /\ requests < MaxRequests
    /\ requests' = requests + 1
    /\ \E mode \in Modes, has_message \in BOOLEAN, message \in Messages,
          rag_enabled \in BOOLEAN, web_enabled \in BOOLEAN :
          /\ req' = [mode |-> mode, has_message |-> has_message, message |-> message,
                     rag_enabled |-> rag_enabled, web_enabled |-> web_enabled]
          /\ IF has_message
             THEN pc' = "web" /\ response' = NoResponse
             ELSE Respond(NoMessageResponse(mode))
    /\ web_results' = <<>>
    /\ prompt' = NoPrompt
    /\ ingest' = NoIngest
    /\ provider' = NoProvider
    /\ storage' = "none"
    /\ downstream' = NoDownstream
    /\ disconnected' = FALSE
    /\ store0' = store
    /\ webCalls' = 0
    /\ modelCalls' = 0
    /\ storeWrites' = 0
    /\ events' = <<>>
    /\ idx' = 0
    /\ connHeld' = FALSE
    /\ UNCHANGED <<dbVars, cfgVars, callVars, clientVars>>

\* lines 415-427 / 523-535
WebLookup ==
    /\ pc = "web"
    /\ IF ~req.web_enabled
       THEN /\ pc' = "ingest"
            /\ UNCHANGED <<web_results, webCalls, response, provider>>
       ELSE \E out \in WebOutcomes :
              LET got == fetch_google_results(configured, out)
              IN  /\ provider' = IF got.called THEN out ELSE provider
                  /\ webCalls' = webCalls + (IF got.called THEN 1 ELSE 0)
                  /\ web_results' = got.results
                  /\ IF got.raised THEN Respond(FailureResponse(req.mode))
                     ELSE IF got.error = "not_configured" THEN Respond(NotConfiguredResponse)
                     ELSE pc' = "ingest" /\ UNCHANGED response
    /\ UNCHANGED <<dbVars, cfgVars, callVars, clientVars, requests, req, prompt, ingest, storage,
                   downstream, disconnected, store0, modelCalls, storeWrites, events,
                   idx, connHeld>>

\* lines 429-444 / 537-559.  The store may raise: in rag_counts before the insert
\* ("fail_count"), in add_document_chunks, which rolls the batch back
\* ("fail_insert"), or in the rag_counts of line 441 after the commit ("fail_total").
\* (AutoIngest_ignores_rag: the paste is stored whether or not RAG is enabled.)
AutoIngest_ignores_rag ==
    /\ pc = "ingest"
    /\ IF should_auto_ingest(req.message)
       THEN \E outcome \in {"ok", "fail_count", "fail_insert", "fail_total"} :
              LET filename == PasteFilename(store)
                  rows == NewRows(filename, req.message, nextId)
                  committed == outcome \in {"ok", "fail_total"}
              IN  /\ outcome = "fail_total" => req.mode = "single"
                  /\ storage' = outcome
                  /\ storeWrites' = storeWrites + (IF outcome = "fail_count" THEN 0 ELSE 1)
                  /\ store' = IF committed THEN store \o rows ELSE store
                  /\ nextId' = IF committed THEN nextId + Len(rows) ELSE nextId
                  /\ ingest' = IF committed
                               THEN [done |-> TRUE, filename |-> filename,
                                     chunks_added |-> Len(rows)]
                               ELSE ingest
                  /\ IF outcome # "ok" THEN Respond(FailureResponse(req.mode))
                     ELSE IF req.mode = "single"
                     THEN Respond(IngestAckResponse(req, filename, Len(rows),
                                                    rag_counts(store \o rows)[2]))
                     ELSE response' = StreamResponse /\ pc' = "ack_start"
       ELSE /\ pc' = "build"
            /\ UNCHANGED <<store, nextId, storeWrites, response, ingest, storage>>
    /\ UNCHANGED <<cfgVars, callVars, clientVars, requests, req, web_results, prompt, provider,
                   downstream, disconnected, store0, webCalls, modelCalls, events, idx,
                   connHeld>>

AutoIngest ==
    /\ pc = "ingest"
    /\ IF req.rag_enabled /\ should_auto_ingest(req.message)
       THEN \E outcome \in {"ok", "fail_count", "fail_insert", "fail_total"} :
              LET filename == PasteFilename(store)
                  rows == NewRows(filename, req.message, nextId)
                  committed == outcome \in {"ok", "fail_total"}
              IN  /\ outcome = "fail_total" => req.mode = "single"
                  /\ storage' = outcome
                  /\ storeWrites' = storeWrites + (IF outcome = "fail_count" THEN 0 ELSE 1)
                  /\ store' = IF committed THEN store \o rows ELSE store
                  /\ nextId' = IF committed THEN nextId + Len(rows) ELSE nextId
                  /\ ingest' = IF committed
                               THEN [done |-> TRUE, filename |-> filename,
                                     chunks_added |-> Len(rows)]
                               ELSE ingest
                  /\ IF outcome # "ok" THEN Respond(FailureResponse(req.mode))
                     ELSE IF req.mode = "single"
                     THEN Respond(IngestAckResponse(req, filename, Len(rows),
                                                    rag_counts(store \o rows)[2]))
                     ELSE response' = StreamResponse /\ pc' = "ack_start"
       ELSE /\ pc' = "build"
            /\ UNCHANGED <<store, nextId, storeWrites, response, ingest, storage>>
    /\ UNCHANGED <<cfgVars, callVars, clientVars, requests, req, web_results, prompt, provider,
                   downstream, disconnected, store0, webCalls, modelCalls, events, idx,
                   connHeld>>

\* everything a step of a generator that only yields or returns leaves alone
genFrame == <<dbVars, cfgVars, callVars, clientVars, reqVars, envVars, histVars, response, idx,
              connHeld>>

\* generate_ingest_ack, lines 540-557: started, it yields the token event
AckToken ==
    /\ pc = "ack_start"
    /\ events' = Append(events, TokenEvent(AckText(ingest.filename, ingest.chunks_added)))
    /\ pc' = "ack_token"
    /\ UNCHANGED genFrame

\* resumed, it yields the done event
AckDone ==
    /\ pc = "ack_token"
    /\ events' = Append(events, DoneEvent(req, TRUE))
    /\ pc' = "ack_done"
    /\ UNCHANGED genFrame

\* resumed again, it returns
AckReturn ==
    /\ pc = "ack_done"
    /\ pc' = "responded"
    /\ UNCHANGED <<genFrame, events>>

\* lines 446-452 / 561-567: build_messages reads the store when RAG is enabled, and
\* the read may raise; chat_stream then returns the Response around generate()
BuildMessages ==
    /\ pc = "build"
    /\ \E read_ok \in BOOLEAN :
          /\ ~read_ok => req.rag_enabled
          /\ storage' = IF ~req.rag_enabled THEN storage
                        ELSE IF read_ok THEN "ok" ELSE "fail_read"
          /\ IF read_ok
             THEN /\ prompt' = build_system_prompt(req.rag_enabled, req.message,
                                                   req.web_enabled, web_results, store)
                  /\ IF req.mode = "single"
                     THEN pc' = "post" /\ UNCHANGED response
                     ELSE pc' = "gen_start" /\ response' = StreamResponse
             ELSE /\ Respond(FailureResponse(req.mode))
                  /\ UNCHANGED prompt
    /\ UNCHANGED <<dbVars, cfgVars, callVars, clientVars, histVars, requests, req, web_results,
                   ingest, provider, downstream, disconnected, events, idx, connHeld>>

\* lines 469-507: what chat returns for the downstream's answer d
single_shot_response(r, d) ==
    CASE d.kind = "timeout" -> TimeoutResponse
      [] d.kind \in {"error", "body_timeout"} -> FailureResponse("single")
      [] d.status # 200 -> FailureResponse("single")
      [] d.body \in {"notjson", "nonobject", "badmsg"} -> FailureResponse("single")
      [] d.content = <<>> -> FailureResponse("single")
      [] OTHER -> SuccessResponse(r, d.content)

\* lines 454-507: the one downstream request of single-shot mode and its answer.
\* (Post_retries_timeout: a timed-out request sent again.)
Post_retries_timeout ==
    /\ pc = "post"
    /\ \E d \in SingleDownstream :
          /\ downstream' = d
          /\ IF d.kind = "timeout" /\ modelCalls < 2
             THEN UNCHANGED <<pc, response>>
             ELSE Respond(single_shot_response(req, d))
    /\ modelCalls' = modelCalls + 1
    /\ UNCHANGED <<dbVars, cfgVars, callVars, clientVars, reqVars, provider, storage, disconnected,
                   store0, webCalls, storeWrites, events, idx, connHeld>>

Post ==
    /\ pc = "post"
    /\ \E d \in SingleDownstream :
          /\ downstream' = d
          /\ Respond(single_shot_response(req, d))
    /\ modelCalls' = modelCalls + 1
    /\ UNCHANGED <<dbVars, cfgVars, callVars, clientVars, reqVars, provider, storage, disconnected,
                   store0, webCalls, storeWrites, events, idx, connHeld>>

(***************************************************************************)
(* The streaming relay, chat_stream.generate (lines 569-630).              *)
(***************************************************************************)
\* lines 597-621: what one iteration of the for loop does with a line.  An empty
\* line and a line json.loads rejects are skipped; parsed.get(...).get(...) raises
\* AttributeError when the parsed value, or its message, is not an object.
\* (relay_line_ignores_done: the loop without its done check.)
relay_line_ignores_done(line) ==
    CASE line.kind \in {"empty", "garbage"} ->
            [raises |-> FALSE, token |-> "", done |-> FALSE]
      [] line.kind \in {"nonobject", "badmsg"} ->
            [raises |-> TRUE, token |-> "", done |-> FALSE]
      [] OTHER ->
            [raises |-> FALSE, token |-> line.content, done |-> FALSE]

relay_line(line) ==
    CASE line.kind \in {"empty", "garbage"} ->
            [raises |-> FALSE, token |-> "", done |-> FALSE]
      [] line.kind \in {"nonobject", "badmsg"} ->
            [raises |-> TRUE, token |-> "", done |-> FALSE]
      [] OTHER ->
            [raises |-> FALSE, token |-> line.content, done |-> line.done]

\* the exceptions of the relay, by class and message.  HTTP_SESSION.post raises a
\* requests Timeout when the connection or the status line times out, and another
\* RequestException for other transport failures; iter_lines raises
\* ConnectionError both when the read of the body times out (requests wraps the
\* read timeout of urllib3 in ConnectionError, not in Timeout) and when the
\* transport fails; .get on a parsed value that is no object raises AttributeError
post_exception(d) ==
    IF d.kind = "timeout" THEN [class |-> "Timeout", text |-> "Read timed out."]
    ELSE [class |-> "ConnectionError", text |-> d.text]

iter_lines_exception(d) ==
    IF d.ending = "timeout" THEN [class |-> "ConnectionError", text |-> "Read timed out."]
    ELSE [class |-> "ConnectionError", text |-> d.text]

AttributeError == [class |-> "AttributeError", text |-> "object has no attribute 'get'"]

\* the except clauses of lines 622-630
exception_event(exc) ==
    IF exc.class = "Timeout" THEN TimeoutEvent ELSE StreamFailedEvent(exc.text)

\* lines 571-594: generate() starts and sends the one downstream request.  A
\* non-200 answer is reported after response.text has read its body to the end,
\* which returns the connection; a 200 answer leaves the connection checked out
GenPost ==
    /\ pc = "gen_start"
    /\ modelCalls' = modelCalls + 1
    /\ \E d \in StreamDownstream(lineLimit) :
          /\ downstream' = d
          /\ CASE d.kind \in {"timeout", "error"} ->
                    /\ events' = Append(events, exception_event(post_exception(d)))
                    /\ pc' = "gen_final"
                    /\ UNCHANGED connHeld
               [] d.kind = "http" /\ d.status # 200 ->
                    /\ events' = Append(events, ApiErrorEvent(d.text))
                    /\ pc' = "gen_final"
                    /\ connHeld' = FALSE
               [] OTHER ->
                    /\ pc' = "gen_lines"
                    /\ connHeld' = TRUE
                    /\ UNCHANGED events
    /\ UNCHANGED <<dbVars, cfgVars, callVars, clientVars, reqVars, provider, storage, disconnected,
                   store0, webCalls, storeWrites, response, idx>>

\* lines 596-621: one line arrives and the loop body runs up to its first yield,
\* or to the end of the iteration.  generate() never closes the response: after the
\* done record, and after an exception of its own, the connection stays checked out
GenLine ==
    /\ pc = "gen_lines"
    /\ idx < Len(downstream.lines)
    /\ idx' = idx + 1
    /\ LET does == relay_line(downstream.lines[idx + 1])
       IN  CASE does.raises ->
                    /\ events' = Append(events, exception_event(AttributeError))
                    /\ pc' = "gen_final"
             [] does.token # "" ->
                    /\ events' = Append(events, TokenEvent(does.token))
                    /\ pc' = "gen_token"
             [] does.done ->
                    /\ events' = Append(events, DoneEvent(req, FALSE))
                    /\ pc' = "gen_final"
             [] OTHER ->
                    /\ pc' = "gen_lines"
                    /\ UNCHANGED events
    /\ UNCHANGED <<dbVars, cfgVars, callVars, clientVars, reqVars, envVars, histVars, response,
                   connHeld>>

\* lines 608-621: resumed after the token yield, the loop body goes on to the done
\* check of the same record
GenResume ==
    /\ pc = "gen_token"
    /\ IF relay_line(downstream.lines[idx]).done
       THEN /\ events' = Append(events, DoneEvent(req, FALSE))
            /\ pc' = "gen_final"
       ELSE /\ pc' = "gen_lines"
            /\ UNCHANGED events
    /\ UNCHANGED genFrame

\* line 596: the downstream body ends (with or without a done record before it):
\* the loop ends and generate() returns; the body read to its end, the connection
\* is returned
GenExhausted ==
    /\ pc = "gen_lines"
    /\ idx = Len(downstream.lines)
    /\ downstream.ending = "eof"
    /\ pc' = "responded"
    /\ connHeld' = FALSE
    /\ UNCHANGED <<dbVars, cfgVars, callVars, clientVars, reqVars, envVars, histVars, response,
                   events, idx>>

\* line 596: waiting for the next line, iter_lines raises (a read timeout, or
\* another transport error, which closes the connection).
\* (GenReadFail_swallowed: the exception caught and dropped, no event yielded.)
GenReadFail_swallowed ==
    /\ pc = "gen_lines"
    /\ idx = Len(downstream.lines)
    /\ downstream.ending # "eof"
    /\ pc' = "gen_final"
    /\ connHeld' = FALSE
    /\ UNCHANGED <<dbVars, cfgVars, callVars, clientVars, reqVars, envVars, histVars, response,
                   idx, events>>

GenReadFail ==
    /\ pc = "gen_lines"
    /\ idx = Len(downstream.lines)
    /\ downstream.ending # "eof"
    /\ events' = Append(events, exception_event(iter_lines_exception(downstream)))
    /\ pc' = "gen_final"
    /\ connHeld' = FALSE
    /\ UNCHANGED <<dbVars, cfgVars, callVars, clientVars, reqVars, envVars, histVars, response,
                   idx>>

\* lines 594, 621 and the end of the except clauses: resumed after its last yield,
\* generate() returns
GenReturn ==
    /\ pc = "gen_final"
    /\ pc' = "responded"
    /\ UNCHANGED <<genFrame, events>>

\* the caller goes away: the server closes the generator, which is not started
\* or is suspended at a yield; GeneratorExit is no Exception, so no except clause
\* runs and nothing more is yielded
Disconnect ==
    /\ pc \in {"ack_start", "ack_token", "ack_done", "gen_start", "gen_token", "gen_final"}
    /\ pc' = "responded"
    /\ disconnected' = TRUE
    /\ UNCHANGED <<dbVars, cfgVars, callVars, clientVars, reqVars, histVars, provider, storage,
                   downstream, response, events, idx, connHeld>>

(***************************************************************************)
(* Concurrent clients of the store: request handlers running               *)
(* add_document_chunks, a SELECT of the rows (retrieve_context) or         *)
(* rag_clear, each on a connection of its own.  sqlite3 opens a            *)
(* transaction at the first INSERT, which takes the database write lock;   *)
(* the rows of an open transaction are visible to no other connection;     *)
(* commit publishes them together; leaving the with block by an exception  *)
(* rolls them back.                                                        *)
(***************************************************************************)
Clients == {"c1", "c2"}

NoWriter == "none"

NoJob == [call |-> 0]

UploadNames == {<<"a.txt">>, <<"b.txt">>}

\* texts handed to add_document_chunks: one of three chunks, and a whitespace-only
\* one, which gives no chunk (rag_upload, line 362, and should_auto_ingest, line
\* 178, keep such a text away from it)
UploadContents == {LongPaste, <<" ", "\n">>}

\* a call that has not returned
NoOutcome == [returned |-> FALSE]

\* lines 113-115: the text is chunked and a connection opened.  The caller's view
\* of the store before the call is kept with the job, for the call's record
AddBegin(c) ==
    /\ ppc[c] = "idle"
    /\ ops < MaxOps
    /\ \E filename \in UploadNames, content \in UploadContents :
          LET chunks == chunk_text(content)
          IN  /\ job' = [job EXCEPT ![c] = [call |-> Len(calls) + 1,
                                            filename |-> filename, chunks |-> chunks,
                                            store_before |-> store]]
              /\ calls' = Append(calls, [size |-> Len(chunks), ids |-> {},
                                         filename |-> filename, content |-> content,
                                         outcome |-> NoOutcome])
    /\ ppc' = [ppc EXCEPT ![c] = "adding"]
    /\ ops' = ops + 1
    /\ UNCHANGED <<dbVars, cfgVars, callVars, reqVars, envVars, histVars, txn, writer, observed,
                   pc, response, events, idx, connHeld>>

\* ingest_pasted_document, lines 189-191, up to the start of its
\* add_document_chunks call: rag_counts() reads the committed rows on a connection
\* of its own, which is closed again; the filename is made of the count read; the
\* call then chunks the message and opens its connection.  The message is one that
\* should_auto_ingest accepts (lines 429 / 537)
IngestBegin(c) ==
    /\ ppc[c] = "idle"
    /\ ops < MaxOps
    /\ should_auto_ingest(LongPaste)
    /\ LET document_count == rag_counts(store)[1]
           filename == PasteName(document_count + 1)
           chunks == chunk_text(LongPaste)
       IN  /\ job' = [job EXCEPT ![c] = [call |-> Len(calls) + 1,
                                         filename |-> filename, chunks |-> chunks,
                                         store_before |-> store,
                                         document_count |-> document_count]]
           /\ calls' = Append(calls, [size |-> Len(chunks), ids |-> {},
                                      filename |-> filename, content |-> LongPaste,
                                      outcome |-> NoOutcome])
    /\ ppc' = [ppc EXCEPT ![c] = "adding"]
    /\ ops' = ops + 1
    /\ UNCHANGED <<dbVars, cfgVars, callVars, reqVars, envVars, histVars, txn, writer, observed,
                   pc, response, events, idx, connHeld>>

\* lines 116-129: one INSERT of the loop, into the connection's transaction
AddInsert(c) ==
    /\ ppc[c] = "adding"
    /\ Len(txn[c]) < Len(job[c].chunks)
    /\ writer \in {NoWriter, c}
    /\ writer' = c
    /\ LET index == Len(txn[c])
           row == ChunkRow(nextId, job[c].filename, index, job[c].chunks[index + 1])
       IN  txn' = [txn EXCEPT ![c] = Append(@, row)]
    /\ calls' = [calls EXCEPT ![job[c].call].ids = @ \cup {nextId}]
    /\ nextId' = nextId + 1
    /\ UNCHANGED <<store, cfgVars, callVars, reqVars, envVars, histVars, ppc, job, observed, ops,
                   pc, response, events, idx, connHeld>>

\* what the caller of a call that returned saw: the value returned (line 131), the
\* chunk total counts() gave before the call and gives after it, whether filenames()
\* lists the filename after it, and whether the store changed under the call
AddOutcome(j, at_commit, after) ==
    [returned |-> TRUE,
     chunks_added |-> Len(j.chunks),
     total_before |-> rag_counts(j.store_before)[2],
     total_after |-> rag_counts(after)[2],
     listed |-> j.filename \in rag_filenames(after),
     undisturbed |-> at_commit = j.store_before]

\* lines 130-131: commit publishes the rows of the transaction together, and the
\* call returns len(chunks).
\* (AddCommit_loses_last: a commit that publishes all rows of the batch but the last.)
AddCommit_loses_last(c) ==
    /\ ppc[c] = "adding"
    /\ Len(txn[c]) = Len(job[c].chunks)
    /\ store' = store \o SubSeq(txn[c], 1, Len(txn[c]) - 1)
    /\ calls' = [calls EXCEPT ![job[c].call].outcome = AddOutcome(job[c], store, store')]
    /\ txn' = [txn EXCEPT ![c] = <<>>]
    /\ writer' = IF writer = c THEN NoWriter ELSE writer
    /\ ppc' = [ppc EXCEPT ![c] = "idle"]
    /\ job' = [job EXCEPT ![c] = NoJob]
    /\ UNCHANGED <<nextId, cfgVars, callVars, reqVars, envVars, histVars, observed, ops,
                   pc, response, events, idx, connHeld>>

AddCommit(c) ==
    /\ ppc[c] = "adding"
    /\ Len(txn[c]) = Len(job[c].chunks)
    /\ store' = store \o txn[c]
    /\ calls' = [calls EXCEPT ![job[c].call].outcome = AddOutcome(job[c], store, store')]
    /\ txn' = [txn EXCEPT ![c] = <<>>]
    /\ writer' = IF writer = c THEN NoWriter ELSE writer
    /\ ppc' = [ppc EXCEPT ![c] = "idle"]
    /\ job' = [job EXCEPT ![c] = NoJob]
    /\ UNCHANGED <<nextId, cfgVars, callVars, reqVars, envVars, histVars, observed, ops,
                   pc, response, events, idx, connHeld>>

\* line 114: a storage error anywhere in the with block (an I/O error, the database
\* locked by another writer) leaves it by an exception, which rolls back.
\* (AddFail_keeps_rows: no rollback, as on a connection in autocommit mode.)
AddFail_keeps_rows(c) ==
    /\ ppc[c] = "adding"
    /\ store' = store \o txn[c]
    /\ txn' = [txn EXCEPT ![c] = <<>>]
    /\ writer' = IF writer = c THEN NoWriter ELSE writer
    /\ ppc' = [ppc EXCEPT ![c] = "idle"]
    /\ job' = [job EXCEPT ![c] = NoJob]
    /\ UNCHANGED <<nextId, cfgVars, callVars, reqVars, envVars, histVars, observed, ops,
                   calls, pc, response, events, idx, connHeld>>

AddFail(c) ==
    /\ ppc[c] = "adding"
    /\ txn' = [txn EXCEPT ![c] = <<>>]
    /\ writer' = IF writer = c THEN NoWriter ELSE writer
    /\ ppc' = [ppc EXCEPT ![c] = "idle"]
    /\ job' = [job EXCEPT ![c] = NoJob]
    /\ UNCHANGED <<dbVars, cfgVars, callVars, reqVars, envVars, histVars, observed, ops,
                   calls, pc, response, events, idx, connHeld>>

\* lines 139-142: a reader's SELECT returns the committed rows
Select(c) ==
    /\ ppc[c] = "idle"
    /\ ops < MaxOps
    /\ observed' = [observed EXCEPT ![c] = store]
    /\ ops' = ops + 1
    /\ UNCHANGED <<dbVars, cfgVars, callVars, reqVars, envVars, histVars, ppc, job, txn, writer,
                   calls, pc, response, events, idx, connHeld>>

\* rag_clear, lines 395-397: DELETE and commit; it needs the write lock.
\* (Clear_one_document: a delete of the rows of the oldest document only.)
Clear_one_document(c) ==
    /\ ppc[c] = "idle"
    /\ ops < MaxOps
    /\ writer = NoWriter
    /\ store' = IF store = <<>> THEN <<>>
                ELSE LET Others(row) == row.filename # store[1].filename
                     IN  SelectSeq(store, Others)
    /\ ops' = ops + 1
    /\ UNCHANGED <<nextId, cfgVars, callVars, reqVars, envVars, histVars, ppc, job, txn, writer,
                   observed, calls, pc, response, events, idx, connHeld>>

Clear(c) ==
    /\ ppc[c] = "idle"
    /\ ops < MaxOps
    /\ writer = NoWriter
    /\ store' = <<>>
    /\ ops' = ops + 1
    /\ UNCHANGED <<nextId, cfgVars, callVars, reqVars, envVars, histVars, ppc, job, txn, writer,
                   observed, calls, pc, response, events, idx, connHeld>>

(***************************************************************************)
(* Spec: chat requests, one after another, from an empty store.            *)
(***************************************************************************)
NoFunctionCall ==
    /\ call = NoCall
    /\ result = NoResult

ClientsIdle ==
    /\ ppc = [c \in Clients |-> "idle"]
    /\ job = [c \in Clients |-> NoJob]
    /\ txn = [c \in Clients |-> <<>>]
    /\ writer = NoWriter
    /\ observed = [c \in Clients |-> <<>>]
    /\ ops = 0
    /\ calls = <<>>

NoChatRequest ==
    /\ requests = 0
    /\ pc = "idle"
    /\ req = NoRequest
    /\ web_results = <<>>
    /\ prompt = NoPrompt
    /\ ingest = NoIngest
    /\ provider = NoProvider
    /\ storage = "none"
    /\ downstream = NoDownstream
    /\ disconnected = FALSE
    /\ store0 = <<>>
    /\ webCalls = 0
    /\ modelCalls = 0
    /\ storeWrites = 0
    /\ response = NoResponse
    /\ events = <<>>
    /\ idx = 0
    /\ connHeld = FALSE

Init ==
    /\ store = <<>>
    /\ NoFunctionCall
    /\ nextId = 1
    /\ configured \in BOOLEAN
    /\ lineLimit = OrchLines
    /\ NoChatRequest
    /\ ClientsIdle

Next ==
    \/ ReceiveRequest
    \/ WebLookup
    \/ AutoIngest
    \/ AckToken
    \/ AckDone
    \/ AckReturn
    \/ BuildMessages
    \/ Post
    \/ GenPost
    \/ GenLine
    \/ GenResume
    \/ GenExhausted
    \/ GenReadFail
    \/ GenReturn
    \/ Disconnect

Spec == Init /\ [][Next]_vars

(***************************************************************************)
(* RelaySpec: the relay alone, from the state in which chat_stream has     *)
(* returned Response(generate()) for a short question, with longer         *)
(* downstream streams.                                                     *)
(***************************************************************************)
RelayInit ==
    /\ store = <<>>
    /\ NoFunctionCall
    /\ nextId = 1
    /\ configured = TRUE
    /\ lineLimit = MaxLines
    /\ requests = 1
    /\ pc = "gen_start"
    /\ \E rag_enabled \in BOOLEAN, web_enabled \in BOOLEAN :
          /\ req = [mode |-> "stream", has_message |-> TRUE, message |-> ShortQuestion,
                    rag_enabled |-> rag_enabled, web_enabled |-> web_enabled]
          /\ prompt = build_system_prompt(rag_enabled, ShortQuestion, web_enabled,
                                          <<>>, <<>>)
          /\ provider = IF web_enabled THEN [kind |-> "ok", items |-> <<>>]
                        ELSE NoProvider
          /\ webCalls = IF web_enabled THEN 1 ELSE 0
          /\ storage = IF rag_enabled THEN "ok" ELSE "none"
    /\ web_results = <<>>
    /\ ingest = NoIngest
    /\ downstream = NoDownstream
    /\ disconnected = FALSE
    /\ store0 = <<>>
    /\ modelCalls = 0
    /\ storeWrites = 0
    /\ response = StreamResponse
    /\ events = <<>>
    /\ idx = 0
    /\ connHeld = FALSE
    /\ ClientsIdle

RelayNext ==
    \/ GenPost
    \/ GenLine
    \/ GenResume
    \/ GenExhausted
    \/ GenReadFail
    \/ GenReturn
    \/ Disconnect

RelaySpec == RelayInit /\ [][RelayNext]_vars

(***************************************************************************)
(* StoreSpec: the concurrent clients of the store, from an empty store.    *)
(***************************************************************************)
StoreInit ==
    /\ store = <<>>
    /\ NoFunctionCall
    /\ nextId = 1
    /\ configured = TRUE
    /\ lineLimit = 0
    /\ NoChatRequest
    /\ ClientsIdle

StoreNext ==
    \E c \in Clients :
        \/ AddBegin(c)
        \/ AddInsert(c)
        \/ AddCommit(c)
        \/ AddFail(c)
        \/ Select(c)
        \/ Clear(c)

StoreSpec == StoreInit /\ [][StoreNext]_vars

(***************************************************************************)
(* IngestSpec: the clients of StoreSpec, where a client may also be a chat *)
(* request that auto-ingests its message.                                  *)
(***************************************************************************)
IngestNext ==
    \E c \in Clients :
        \/ IngestBegin(c)
        \/ AddBegin(c)
        \/ AddInsert(c)
        \/ AddCommit(c)
        \/ AddFail(c)
        \/ Select(c)
        \/ Clear(c)

IngestSpec == StoreInit /\ [][IngestNext]_vars

(***************************************************************************)
(* FunSpec: one function of app.py called on its own, with arguments drawn *)
(* from bounded sets: chunk_text, should_auto_ingest, retrieve_context     *)
(* (against a store of up to MaxDocs one-chunk documents) and              *)
(* build_messages.                                                         *)
(***************************************************************************)
\* the texts chunk_text is called with: every text of up to MaxText characters
ChunkTexts == SeqsUpTo({"a", "b", " "}, MaxText)

ChunkCalls ==
    {[fn |-> "chunk_text", text |-> t, chunk_size |-> n, overlap |-> o] :
        t \in ChunkTexts, n \in 1..MaxChunkSize, o \in 0..MaxOverlap}

\* the messages should_auto_ingest is called with: whitespace, letters, question
\* marks, line breaks, a last word or none, whitespace; the numbers of letters,
\* question marks and line breaks range over both sides of the thresholds
IngestMessages ==
    {Rep(" ", lead) \o Rep("w", letters) \o Rep("?", marks) \o Rep("\n", breaks)
        \o last \o Rep(pad, trail) :
        lead \in 0..MaxPad, trail \in 0..MaxPad, pad \in {" ", "\n"},
        letters \in {0, 1, RAG_AUTO_INGEST_MIN_CHARS - 2, RAG_AUTO_INGEST_MIN_CHARS - 1,
                     RAG_AUTO_INGEST_MIN_CHARS},
        marks \in 0..QUESTION_MARKS_MIN,
        breaks \in {0, AUTO_INGEST_MIN_LINES - 2, AUTO_INGEST_MIN_LINES - 1,
                    AUTO_INGEST_MIN_LINES},
        last \in {<<>>, <<"w">>}}

IngestCalls == {[fn |-> "should_auto_ingest", message |-> m] : m \in IngestMessages}

\* documents of one chunk each, and the stores made of up to MaxDocs of them,
\* uploaded one after the other (the same document twice included)
Documents ==
    {[filename |-> <<"d1.txt">>, content |-> <<"f","o","o"," ","b","a","r"," ","b","a","z">>],
     [filename |-> <<"d2.txt">>, content |-> <<"B","a","r"," ","q","u","x">>],
     [filename |-> <<"d3.txt">>, content |-> <<"n","o"," ","h","i","t">>]}

RECURSIVE Uploaded(_, _)
Uploaded(docs, firstId) ==
    IF docs = <<>> THEN <<>>
    ELSE LET rows == NewRows(docs[1].filename, docs[1].content, firstId)
         IN  rows \o Uploaded(Tail(docs), firstId + Len(rows))

Stores == {Uploaded(docs, 1) : docs \in SeqsUpTo(Documents, MaxDocs)}

Queries ==
    {<<>>, ShortQuestion, <<"f","o","o">>, <<"F","O","O"," ","b","a","r">>,
     <<"b","a","r"," ","b","a","z"," ","q","u","x">>, <<"z","z","z">>}

RetrieveCalls ==
    {[fn |-> "retrieve_context", query |-> q, top_k |-> k] :
        q \in Queries, k \in 0..MaxTopK}

\* the turns of a supplied history: valid ones, one of another role, one of empty
\* content
Turns ==
    {[role |-> "user", content |-> "u"], [role |-> "assistant", content |-> "a"],
     [role |-> "system", content |-> "s"], [role |-> "user", content |-> ""]}

BuildCalls ==
    {[fn |-> "build_messages", history |-> h, history_bound |-> n] :
        h \in SeqsUpTo(Turns, MaxHistory), n \in 0..MaxHistoryBound}

Returned(value) == [returned |-> TRUE, value |-> value]

callFrame == <<dbVars, cfgVars, reqVars, envVars, histVars, clientVars, pc, response,
               events, idx, connHeld, call>>

Call_chunk_text ==
    /\ call.fn = "chunk_text"
    /\ result = NoResult
    /\ result' = Returned(chunk_text_with(call.text, call.chunk_size, call.overlap))
    /\ UNCHANGED callFrame

Call_should_auto_ingest ==
    /\ call.fn = "should_auto_ingest"
    /\ result = NoResult
    /\ result' = Returned(should_auto_ingest(call.message))
    /\ UNCHANGED callFrame

Call_retrieve_context ==
    /\ call.fn = "retrieve_context"
    /\ result = NoResult
    /\ result' = Returned(retrieve_context(call.query, store, call.top_k))
    /\ UNCHANGED callFrame

Call_build_messages ==
    /\ call.fn = "build_messages"
    /\ result = NoResult
    /\ result' = Returned(build_messages(ShortQuestion, call.history, FALSE, FALSE,
                                         <<>>, store, call.history_bound))
    /\ UNCHANGED callFrame

FunInit ==
    /\ call \in ChunkCalls \cup IngestCalls \cup RetrieveCalls \cup BuildCalls
    /\ result = NoResult
    /\ store \in (IF call.fn = "retrieve_context" THEN Stores ELSE {<<>>})
    /\ nextId = Len(store) + 1
    /\ configured = TRUE
    /\ lineLimit = 0
    /\ NoChatRequest
    /\ ClientsIdle

FunNext ==
    \/ Call_chunk_text
    \/ Call_should_auto_ingest
    \/ Call_retrieve_context
    \/ Call_build_messages

FunSpec == FunInit /\ [][FunNext]_vars

(***************************************************************************)
(* Claims.                                                                 *)
(***************************************************************************)
IsPrefix(a, b) == Len(a) <= Len(b) /\ SubSeq(b, 1, Len(a)) = a

\* the downstream answered the streaming request with status 200
Streaming200 ==
    /\ req.mode = "stream"
    /\ downstream.kind = "http"
    /\ downstream.status = 200

ContentRecord(l) == l.kind = "record" /\ l.content # "" /\ ~l.done

DoneRecord(l) == l.kind = "record" /\ l.done /\ l.content = ""

ErrorEvents == {i \in 1..Len(events) : events[i].type = "error"}

DoneEvents == {i \in 1..Len(events) : events[i].type = "done"}

TokenEvents == {i \in 1..Len(events) : events[i].type = "token"}

\* the downstream body is n content records, then a done record (without content)
C1_Shape(n) ==
    /\ n + 1 <= Len(downstream.lines)
    /\ \A i \in 1..n : ContentRecord(downstream.lines[i])
    /\ DoneRecord(downstream.lines[n + 1])

C1_Expected(n) ==
    [i \in 1..n |-> [type |-> "token", content |-> downstream.lines[i].content]]
    \o <<[type |-> "done", model |-> OLLAMA_MODEL, rag_enabled |-> req.rag_enabled,
          rag_ingested |-> FALSE, web_enabled |-> req.web_enabled]>>

C2_OneTerminalEvent ==
    (pc = "responded" /\ req.mode = "stream" /\ downstream.kind # "none" /\ ~disconnected) =>
        /\ events # <<>>
        /\ events[Len(events)].type \in {"done", "error"}
        /\ Cardinality(DoneEvents \cup ErrorEvents) = 1

\* C6 (as claimed): once the relay has stopped on one of the exit paths the claim
\* names (done record received, downstream non-200, timeout or transport error,
\* caller disconnect), the downstream connection it opened is no longer checked out.
C6_ConnectionReleased ==
    (/\ pc = "responded"
     /\ req.mode = "stream"
     /\ downstream.kind = "http"
     /\ \A i \in 1..Len(downstream.lines) :
           downstream.lines[i].kind \notin {"nonobject", "badmsg"}) =>
        ~connHeld

\* the three kinds of malformed line the claim names
Malformed(l) == l.kind \in {"garbage", "nonobject", "badmsg"}

WellFormed(l) == ~Malformed(l)

\* what a relay emits for well-formed lines: a token per non-empty content, a done
\* event at the first done record, where it stops
RECURSIVE Relayed(_)
Relayed(ls) ==
    IF ls = <<>> THEN <<>>
    ELSE LET l == Head(ls)
             tok == IF l.kind = "record" /\ l.content # ""
                    THEN <<[type |-> "token", content |-> l.content]>> ELSE <<>>
         IN  IF l.kind = "record" /\ l.done
             THEN tok \o <<[type |-> "done", model |-> OLLAMA_MODEL,
                            rag_enabled |-> req.rag_enabled, rag_ingested |-> FALSE,
                            web_enabled |-> req.web_enabled]>>
             ELSE tok \o Relayed(Tail(ls))

\* C7 (as claimed): malformed lines (not JSON, JSON that is no object, an object
\* whose message is no object) are skipped: for a body that ends without a transport
\* failure, the relay emits exactly what it emits for the body without them.
C7_MalformedSkipped ==
    (pc = "responded" /\ ~disconnected /\ Streaming200 /\ downstream.ending = "eof") =>
        events = Relayed(SelectSeq(downstream.lines, WellFormed))

\* C8: at most one error event is ever emitted, it is the last event and no done
\* event comes with it; a non-200 answer, and a timeout or transport error of the
\* request itself, give that one error event and nothing else; a timeout or
\* transport error while reading the body, after the tokens relayed so far, gives the
\* tokens followed by the one error event.
C8_FailurePaths ==
    /\ Cardinality(ErrorEvents) <= 1
    /\ ErrorEvents # {} => (ErrorEvents = {Len(events)} /\ DoneEvents = {})
    /\ (req.mode = "stream" /\ downstream.kind \in {"timeout", "error"}) =>
            (Len(events) = 1 /\ ErrorEvents = {1})
    /\ (req.mode = "stream" /\ downstream.kind = "http" /\ downstream.status # 200) =>
            (Len(events) = 1 /\ ErrorEvents = {1})
    /\ (/\ pc = "responded" /\ ~disconnected /\ Streaming200
        /\ downstream.ending # "eof"
        /\ \A i \in 1..Len(downstream.lines) :
              LET l == downstream.lines[i]
              IN  l.kind \in {"empty", "garbage"} \/ (l.kind = "record" /\ ~l.done)) =>
            /\ ErrorEvents = {Len(events)}
            /\ TokenEvents = 1..(Len(events) - 1)
            /\ Len(events) - 1 =
                  Cardinality({i \in 1..Len(downstream.lines) :
                                  /\ downstream.lines[i].kind = "record"
                                  /\ downstream.lines[i].content # ""})

\* two tokens relayed, then the read times out
C8_Witness ==
    /\ pc = "responded"
    /\ ~disconnected
    /\ Streaming200
    /\ downstream.ending = "timeout"
    /\ Len(events) = 3
    /\ TokenEvents = {1, 2}
    /\ ErrorEvents = {3}

\* the request asked for web mode and the provider credentials are absent
C3_Case ==
    /\ pc # "idle"
    /\ req.has_message
    /\ req.web_enabled
    /\ ~configured

\* C3: in both modes, a request with web mode on and no provider credentials goes
\* from the web lookup straight to the configuration error response (status 400):
\* it sends nothing to the search provider or to the downstream model, calls
\* add_document_chunks never and leaves the store as it found it, also when RAG is
\* enabled and the auto-ingest heuristic would fire.
C3_NotConfiguredStops ==
    C3_Case =>
        /\ pc \in {"web", "responded"}
        /\ webCalls = 0
        /\ modelCalls = 0
        /\ storeWrites = 0
        /\ store = store0
        /\ events = <<>>
        /\ pc = "responded" =>
              (response.status = 400 /\ response = NotConfiguredResponse)

\* a streaming request, RAG enabled, a message the heuristic would ingest, rejected
C3_Witness ==
    /\ C3_Case
    /\ pc = "responded"
    /\ req.mode = "stream"
    /\ req.rag_enabled
    /\ should_auto_ingest(req.message)
    /\ response.status = 400

\* a finished request that reached the auto-ingest check with RAG enabled and a
\* message the heuristic takes for a document
C4_Case ==
    /\ pc = "responded"
    /\ req.has_message
    /\ req.rag_enabled
    /\ should_auto_ingest(req.message)
    /\ response # NotConfiguredResponse
    /\ provider.kind # "bad_body"

\* the store is what it was, followed by one row per chunk of the message
C4_Ingested ==
    LET chunks == chunk_text(req.message)
        n == Len(store0)
    IN  /\ chunks # <<>>
        /\ Len(store) = n + Len(chunks)
        /\ SubSeq(store, 1, n) = store0
        /\ \A i \in 1..Len(chunks) :
              /\ store[n + i].content = chunks[i]
              /\ store[n + i].chunk_index = i - 1
              /\ store[n + i].filename = store[n + 1].filename

C4_AckResponse ==
    /\ response.status = 200
    /\ response.success
    /\ response.rag_ingested
    /\ response.message.chunks = Len(chunk_text(req.message))

C4_AckEvents ==
    /\ Len(events) = 2
    /\ events[1].type = "token"
    /\ events[1].content.chunks = Len(chunk_text(req.message))
    /\ events[2].type = "done"
    /\ events[2].rag_ingested

\* C4 (as claimed): such a request has ingested the message and ended with the
\* acknowledgment (rag_ingested true), with no downstream model call; in streaming
\* mode the response is exactly the token event followed by the done event.
C4_IngestAcknowledged ==
    C4_Case =>
        /\ C4_Ingested
        /\ modelCalls = 0
        /\ req.mode = "single" => C4_AckResponse
        /\ req.mode = "stream" => C4_AckEvents

\* C4 (amended): a request with RAG enabled and a message the heuristic takes for a
\* document never calls the downstream model and never reaches prompt assembly.
\* When no store call raises, the message is ingested and acknowledged (rag_ingested
\* true); in streaming mode the response is the token event followed by the done
\* event, or a prefix of the two when the caller disconnects.  When a store call
\* raises, the request ends with the generic failure response, no event, and the
\* store unchanged, unless the call that raised is the count after the commit.
C4_IngestAcknowledgedUnlessStoreFails ==
    /\ (pc # "idle" /\ req.has_message /\ req.rag_enabled
        /\ should_auto_ingest(req.message)) =>
            /\ modelCalls = 0
            /\ pc \in {"web", "ingest", "ack_start", "ack_token", "ack_done", "responded"}
    /\ (C4_Case /\ storage = "ok") =>
            /\ C4_Ingested
            /\ req.mode = "single" => C4_AckResponse
            /\ (req.mode = "stream" /\ ~disconnected) => C4_AckEvents
            /\ (req.mode = "stream" /\ disconnected) =>
                  /\ Len(events) <= 2
                  /\ \A i \in 1..Len(events) :
                        events[i].type = (IF i = 1 THEN "token" ELSE "done")
    /\ (C4_Case /\ storage # "ok") =>
            /\ response = FailureResponse(req.mode)
            /\ events = <<>>
            /\ IF storage = "fail_total" THEN C4_Ingested ELSE store = store0

\* a streaming acknowledgment delivered in full, into a store that held a document
C4_Witness ==
    /\ C4_Case
    /\ storage = "ok"
    /\ req.mode = "stream"
    /\ ~disconnected
    /\ store0 # <<>>
    /\ C4_Ingested
    /\ C4_AckEvents

\* C5: no retries: a chat request, in either mode and whatever fails or times out,
\* sends at most one request to the downstream model and at most one to the search
\* provider, and reports a failure once: at most one error event, and a failure
\* response only as the one response that ends the request.
C5_NoRetries ==
    /\ modelCalls <= 1
    /\ webCalls <= 1
    /\ Cardinality(ErrorEvents) <= 1
    /\ response.status >= 400 => pc = "responded"

\* the search provider failed in transport and the downstream call timed out
C5_Witness ==
    /\ pc = "responded"
    /\ webCalls = 1
    /\ provider.kind = "transport"
    /\ modelCalls = 1
    /\ downstream.kind = "timeout"
    /\ response.status = 504

\* a single-shot request that was answered after the downstream dispatch
C9_Dispatched ==
    /\ pc = "responded"
    /\ req.mode = "single"
    /\ downstream.kind # "none"

\* the downstream returned status 200 with non-empty assistant text
C9_HasText ==
    /\ downstream.kind = "http"
    /\ downstream.status = 200
    /\ downstream.body = "message"
    /\ downstream.content # <<>>

\* C9 (as claimed): a dispatched single-shot request succeeds exactly when the
\* downstream returned 200 with non-empty assistant text; the message returned is
\* that text trimmed and is not empty; otherwise the response is a failure.
C9_SingleShotDispatch ==
    C9_Dispatched =>
        IF C9_HasText
        THEN /\ response.status = 200
             /\ response.success
             /\ response.message = Strip(downstream.content)
             /\ response.message # <<>>
        ELSE /\ response.status \in {500, 504}
             /\ ~response.success

\* the rows of `rows` that add_document_chunks call k inserted
RowsOfCall(rows, k) == {i \in 1..Len(rows) : rows[i].id \in calls[k].ids}

AllOrNothing(rows) ==
    \A k \in 1..Len(calls) :
        Cardinality(RowsOfCall(rows, k)) \in {0, calls[k].size}

\* C10: under every interleaving of concurrent add_document_chunks calls, SELECTs
\* and clears, and with storage failures part-way through a batch, the committed
\* table and every row set a reader's SELECT returned hold, of each call, either
\* all len(chunk_text(content)) rows or none.
C10_AllOrNothing ==
    /\ AllOrNothing(store)
    /\ \A c \in Clients : AllOrNothing(observed[c])

\* a call failed part-way through its batch (some rows inserted, fewer than its
\* chunks, nobody running it any more) while another call's rows are committed and
\* a reader has seen them
C10_Witness ==
    /\ \E k \in 1..Len(calls) :
          /\ 0 < Cardinality(calls[k].ids)
          /\ Cardinality(calls[k].ids) < calls[k].size
          /\ \A c \in Clients : ppc[c] = "adding" => job[c].call # k
    /\ \E k \in 1..Len(calls) :
          /\ calls[k].size >= 2
          /\ Cardinality(RowsOfCall(store, k)) = calls[k].size
    /\ \E c \in Clients : observed[c] # <<>>

C12_Completed ==
    {k \in 1..Len(calls) : calls[k].outcome.returned /\ calls[k].outcome.undisturbed}

\* C12 (as claimed): for every filename and every text, after such a call the chunk
\* total has grown by exactly len(chunk_text(text)), the value returned is
\* len(chunk_text(text)), and filenames() includes the filename.
C12_RoundTrip ==
    \A k \in C12_Completed :
        LET o == calls[k].outcome
            n == Len(chunk_text(calls[k].content))
        IN  /\ o.total_after = o.total_before + n
            /\ o.chunks_added = n
            /\ o.listed

\* C12 (amended): the chunk total and the returned value are as claimed for every
\* text; filenames() includes the filename when the text has a character that is
\* not whitespace; when it has none the call adds no row.
C12_RoundTripOfNonBlank ==
    \A k \in C12_Completed :
        LET o == calls[k].outcome
            n == Len(chunk_text(calls[k].content))
            blank == \A i \in 1..Len(calls[k].content) : calls[k].content[i] \in Whitespace
        IN  /\ o.total_after = o.total_before + n
            /\ o.chunks_added = n
            /\ ~blank => (o.listed /\ n >= 1)
            /\ blank => (n = 0 /\ o.total_after = o.total_before)

\* a three-chunk document added to a store that already holds a document
C12_Witness ==
    \E k \in C12_Completed :
        /\ calls[k].outcome.total_before >= 1
        /\ calls[k].outcome.chunks_added = 3
        /\ calls[k].outcome.total_after = calls[k].outcome.total_before + 3
        /\ calls[k].outcome.listed

\* C13: retrieve_context(q, k) against any store returns at most k chunks (as many
\* as k and the number of matching chunks allow); each returned chunk is a stored
\* chunk sharing at least one token with q; the returned chunks are in
\* non-increasing order of overlap, those of equal overlap in storage order; no
\* chunk left out has a strictly larger overlap than a returned one; the result is
\* empty when q has no token or the store is empty.
C13_RetrievalRanking ==
    (call.fn = "retrieve_context" /\ result.returned) =>
        LET q == tokenize(call.query)
            r == result.value
            n == Len(store)
            Ov(i) == Cardinality(q \cap tokenize(store[i].content))
            Proj(i) == [filename |-> store[i].filename, index |-> store[i].chunk_index,
                        content |-> store[i].content]
            matching == {i \in 1..n : Ov(i) >= 1}
        IN  /\ Len(r) <= call.top_k
            /\ Len(r) = Min(call.top_k, Cardinality(matching))
            /\ (q = {} \/ store = <<>>) => r = <<>>
            /\ \E pos \in [1..Len(r) -> 1..n] :
                  /\ \A a, b \in 1..Len(r) : a # b => pos[a] # pos[b]
                  /\ \A a \in 1..Len(r) : r[a] = Proj(pos[a]) /\ pos[a] \in matching
                  /\ \A a, b \in 1..Len(r) :
                        a < b => /\ Ov(pos[a]) >= Ov(pos[b])
                                 /\ Ov(pos[a]) = Ov(pos[b]) => pos[a] < pos[b]
                  /\ \A i \in 1..n, a \in 1..Len(r) :
                        (\A b \in 1..Len(r) : pos[b] # i) => Ov(i) <= Ov(pos[a])

\* three matching chunks and top_k = 2: the chunk stored second comes first, with
\* the larger overlap, then the first of the two of equal overlap; the third is cut
C13_Witness ==
    /\ call.fn = "retrieve_context"
    /\ result.returned
    /\ call.top_k = 2
    /\ Len(store) = 3
    /\ \A i \in 1..3 : tokenize(call.query) \cap store[i].tokens # {}
    /\ store[1].filename = store[3].filename
    /\ store[1].filename # store[2].filename
    /\ Len(result.value) = 2
    /\ result.value[1].filename = store[2].filename
    /\ result.value[2].filename = store[1].filename

\* the k-th smallest element of a finite set of numbers
Nth(S, k) == CHOOSE x \in S : Cardinality({y \in S : y < x}) = k - 1

\* the messages build_messages returned are one system message, then the valid
\* turns (role user or assistant, non-empty content) among the n most recent
\* supplied turns, in their order, then the new user message
HistoryBoundedBy(n) ==
    LET h == call.history
        m == result.value
        recent == {i \in 1..Len(h) : i > Len(h) - n}
        valid == {i \in recent : h[i].role \in {"user", "assistant"} /\ h[i].content # ""}
    IN  /\ Len(m) = Cardinality(valid) + 2
        /\ Len(m) - 2 <= n
        /\ m[1].role = "system"
        /\ m[Len(m)] = [role |-> "user", content |-> ShortQuestion]
        /\ \A k \in 1..Cardinality(valid) :
              m[k + 1] = [role |-> h[Nth(valid, k)].role,
                          content |-> h[Nth(valid, k)].content]

\* C14: for every supplied history and every configured bound N >= 0,
\* build_messages returns exactly one system message first, then at most N history
\* turns, which are the valid turns among the N most recent supplied turns in their
\* original order, then the new user message last.
C14_HistoryBounded ==
    (call.fn = "build_messages" /\ result.returned) =>
        HistoryBoundedBy(call.history_bound)

\* the positions of message[lo..hi] holding character c
Positions(message, lo, hi, c) == {i \in lo..hi : message[i] = c}

\* C15 (as claimed): should_auto_ingest(message) is true if and only if (the total
\* length of the message >= RAG_AUTO_INGEST_MIN_CHARS or its line count >= 12) and
\* the message has fewer than 2 question marks.
C15_Heuristic ==
    (call.fn = "should_auto_ingest" /\ result.returned) =>
        LET m == call.message
            long == \/ Len(m) >= RAG_AUTO_INGEST_MIN_CHARS
                    \/ Cardinality(Positions(m, 1, Len(m), "\n")) + 1 >= AUTO_INGEST_MIN_LINES
            question == Cardinality(Positions(m, 1, Len(m), "?")) >= QUESTION_MARKS_MIN
        IN  result.value <=> (long /\ ~question)

\* C15 (amended): the length and the line count are those of the message without
\* its leading and trailing whitespace: should_auto_ingest(message) is true if and
\* only if the message has a character that is not whitespace, and (the distance
\* from its first to its last such character, both included, is >=
\* RAG_AUTO_INGEST_MIN_CHARS, or the line breaks between them number >= 11), and the
\* message has fewer than 2 question marks.
C15_HeuristicOnTrimmed ==
    (call.fn = "should_auto_ingest" /\ result.returned) =>
        LET m == call.message
            inked == {i \in 1..Len(m) : m[i] \notin Whitespace}
            first == CHOOSE i \in inked : \A j \in inked : i <= j
            last == CHOOSE i \in inked : \A j \in inked : i >= j
            long == \/ last - first + 1 >= RAG_AUTO_INGEST_MIN_CHARS
                    \/ Cardinality(Positions(m, first, last, "\n")) + 1 >= AUTO_INGEST_MIN_LINES
            question == Cardinality(Positions(m, 1, Len(m), "?")) >= QUESTION_MARKS_MIN
        IN  result.value <=> (inked # {} /\ long /\ ~question)

\* a message of 12 lines once trimmed, shorter than RAG_AUTO_INGEST_MIN_CHARS, with
\* whitespace before and after it and one question mark: taken for a document
C15_Witness ==
    /\ call.fn = "should_auto_ingest"
    /\ result.returned
    /\ result.value
    /\ Len(call.message) < RAG_AUTO_INGEST_MIN_CHARS
    /\ call.message[1] = " "
    /\ call.message[Len(call.message)] = "\n"
    /\ Cardinality(Positions(call.message, 1, Len(call.message), "?")) = 1
    /\ Cardinality(Positions(call.message, 1, Len(call.message), "\n")) = AUTO_INGEST_MIN_LINES

\* C16: for every text, chunk_size >= 1 and overlap >= 0 (overlap >= chunk_size
\* included, where the step is 1), chunk_text returns, in order, the trimmed
\* non-empty windows text[s .. s + chunk_size) for s = 0, step, 2*step, ... with
\* step = max(1, chunk_size - overlap), up to and including the first s with
\* s + chunk_size >= len(text); no returned chunk is empty, every non-whitespace
\* character of the text lies in some window, and chunk_text("") is empty.
C16_Windowing ==
    (call.fn = "chunk_text" /\ result.returned) =>
        LET t == call.text
            n == Len(t)
            size == call.chunk_size
            step == IF size - call.overlap >= 1 THEN size - call.overlap ELSE 1
            starts == {s \in 0..(n - 1) :
                          /\ s % step = 0
                          /\ \A p \in 0..(s - 1) : p % step = 0 => p + size < n}
            Window(s) == {i \in 1..n : s < i /\ i <= s + size}
            Ink(s) == {i \in Window(s) : t[i] \notin Whitespace}
            kept == {s \in starts : Ink(s) # {}}
            First(s) == CHOOSE i \in Ink(s) : \A j \in Ink(s) : i <= j
            Last(s) == CHOOSE i \in Ink(s) : \A j \in Ink(s) : i >= j
            r == result.value
        IN  /\ Len(r) = Cardinality(kept)
            /\ \A k \in 1..Len(r) :
                  /\ r[k] = SubSeq(t, First(Nth(kept, k)), Last(Nth(kept, k)))
                  /\ r[k] # <<>>
            /\ \A i \in 1..n : t[i] \notin Whitespace => \E s \in starts : i \in Window(s)
            /\ t = <<>> => r = <<>>

\* overlap >= chunk_size, so the step is 1: four windows of one character, the two
\* of whitespace dropped
C16_Witness ==
    /\ call.fn = "chunk_text"
    /\ result.returned
    /\ call.text = <<"a", " ", " ", "b">>
    /\ call.chunk_size = 1
    /\ call.overlap >= call.chunk_size
    /\ result.value = << <<"a">>, <<"b">> >>

\* text the caller is not to see: what the downstream sent as the body of an error
\* response or what a transport exception says, and the text of an exception raised
\* inside the program
InternalTexts ==
    DownstreamTexts \cup {AttributeError.text, post_exception([kind |-> "timeout"]).text}

\* C17: in both modes, no error response and no error event delivered to the caller
\* holds the downstream's response body or the text of an exception, so that two
\* executions differing only in those texts deliver the same error payloads.
C17_GenericFailurePayloads ==
    /\ \A i \in ErrorEvents :
          \A f \in DOMAIN events[i] \cap {"error", "details"} :
              events[i][f] \notin InternalTexts
    /\ response.status >= 400 =>
          \A f \in DOMAIN response \cap {"error", "details"} :
              response[f] \notin InternalTexts

\* the search provider was called and answered with a non-success status, or the
\* call failed in transport (a timeout included)
C18_Case ==
    /\ pc # "idle"
    /\ req.has_message
    /\ req.web_enabled
    /\ provider.kind \in {"not_ok", "transport"}

\* C18: when the search provider answers with a non-success status or the call
\* fails in transport, fetch_google_results returns (empty, "lookup_failed") without
\* raising, and the request is not ended by it: it goes on to the auto-ingest check
\* and, when that does not fire, to prompt assembly with no web block and to the
\* one downstream request, in both modes.  (Prompt assembly reads the store when
\* RAG is enabled; a request ended there by a store error, or by the caller going
\* away before the relay starts, is not ended by the lookup.)
C18_LookupFailureIsolated ==
    /\ \A out \in {o \in WebOutcomes : o.kind \in {"not_ok", "transport"}} :
          fetch_google_results(TRUE, out) =
              [results |-> <<>>, error |-> "lookup_failed", called |-> TRUE,
               raised |-> FALSE]
    /\ C18_Case =>
          /\ pc # "web"
          /\ webCalls = 1
          /\ web_results = <<>>
          /\ prompt.built => prompt.web_block = <<>>
          /\ pc = "responded" =>
                IF req.rag_enabled /\ should_auto_ingest(req.message)
                THEN storage \in {"ok", "fail_count", "fail_insert", "fail_total"}
                ELSE IF storage = "fail_read"
                THEN response = FailureResponse(req.mode) /\ modelCalls = 0
                ELSE /\ prompt.built
                     /\ response.status # 400
                     /\ req.mode = "single" => modelCalls = 1
                     /\ (req.mode = "stream" /\ ~disconnected) => modelCalls = 1

\* a streaming request with RAG enabled whose lookup failed in transport and whose
\* answer was relayed to its done event
C18_Witness ==
    /\ C18_Case
    /\ provider.kind = "transport"
    /\ pc = "responded"
    /\ req.mode = "stream"
    /\ req.rag_enabled
    /\ ~disconnected
    /\ modelCalls = 1
    /\ prompt.built
    /\ prompt.web_block = <<>>
    /\ DoneEvents # {}

\* the streaming body was relayed to its end without a done record or a line that
\* raises, and the read of the next line failed
C19_BodyReadFailed ==
    /\ Streaming200
    /\ downstream.ending # "eof"
    /\ idx = Len(downstream.lines)
    /\ ErrorEvents # {}
    /\ \A i \in 1..Len(downstream.lines) :
          LET l == downstream.lines[i]
          IN  l.kind \in {"empty", "garbage"} \/ (l.kind = "record" /\ ~l.done)

\* the downstream call failed by a timeout: of the request itself, or of the read
\* of the response body
C19_TimedOut ==
    \/ downstream.kind \in {"timeout", "body_timeout"}
    \/ (req.mode = "stream" /\ C19_BodyReadFailed /\ downstream.ending = "timeout")

\* C19: a timeout of the downstream call yields, in single-shot mode, the timeout
\* response (status 504) and, in streaming mode, the timeout error event, never the
\* generic failure response or event; every other failure yields the generic one,
\* never the timeout one.
C19_TimeoutDistinguished ==
    /\ (pc = "responded" /\ req.mode = "single" /\ downstream.kind # "none"
        /\ response.status >= 400) =>
            (response = TimeoutResponse <=> C19_TimedOut)
    /\ (req.mode = "stream" /\ downstream.kind # "none") =>
            \A i \in ErrorEvents : (events[i] = TimeoutEvent <=> C19_TimedOut)

\* C20: the store is append-only between clears: every step other than a clear
\* leaves each stored row in place and unchanged (id, filename, chunk_index,
\* content, tokens) and only adds rows after them, so the chunk count never
\* decreases except by a clear; and right after a clear the store holds no chunk:
\* rag_counts() = (0, 0) and rag_filenames() is empty.
C20_AppendOnlyUntilClear ==
    [][/\ (\E c \in Clients : Clear(c)) \/ IsPrefix(store, store')
       /\ (\E c \in Clients : Clear(c)) =>
             /\ store' = <<>>
             /\ rag_counts(store') = <<0, 0>>
             /\ rag_filenames(store') = {}]_vars

\* a document of three chunks was committed, then cleared, and another document
\* was committed after the clear
C20_Witness ==
    /\ store # <<>>
    /\ \E k \in 1..Len(calls) :
          /\ calls[k].outcome.returned
          /\ calls[k].outcome.chunks_added = 3
          /\ RowsOfCall(store, k) = {}

\* C21: a chat request (single-shot or streaming) changes the store only when RAG
\* is enabled and should_auto_ingest(message) is true: at every point of every
\* other request (no message, RAG disabled, heuristic false, lookup not
\* configured, downstream failure or success) the store is the one the request
\* found; and a request that got past the lookup with RAG enabled and a paste
\* changed the store only by appending the rows of its one add_document_chunks call.
C21_Ingests ==
    /\ req.has_message
    /\ req.rag_enabled
    /\ should_auto_ingest(req.message)

C21_ChatFrame ==
    requests >= 1 =>
        /\ ~C21_Ingests => store = store0
        /\ storeWrites = 0 => store = store0
        /\ store # store0 =>
              /\ C21_Ingests
              /\ storeWrites = 1
              /\ IsPrefix(store0, store)
              /\ \A i \in Len(store0) + 1..Len(store) : store[i].filename = ingest.filename

\* a second request, with RAG enabled and a message the heuristic rejects, was
\* answered by the model and left alone the store the first request's paste filled
C21_Witness ==
    /\ pc = "responded"
    /\ requests = 2
    /\ store0 # <<>>
    /\ store = store0
    /\ req.has_message
    /\ req.rag_enabled
    /\ ~should_auto_ingest(req.message)
    /\ modelCalls = 1
    /\ response.status = 200


\* C22: auto-ingested pastes get distinct filenames: in every interleaving of
\* chat requests and uploads, an auto-ingest that has written a chunk writes it
\* under a filename that no committed row carries and that no other auto-ingest
\* in flight is writing under.
AutoIngesting(c) ==
    /\ ppc[c] = "adding"
    /\ "document_count" \in DOMAIN job[c]

C22_DistinctPasteFilenames ==
    \A c \in Clients :
        (AutoIngesting(c) /\ txn[c] # <<>>) =>
            /\ job[c].filename \notin rag_filenames(store)
            /\ \A d \in Clients \ {c} :
                  AutoIngesting(d) => job[d].filename # job[c].filename

====
